---- MODULE Spec2Model ----
(***************************************************************************)
(* A model of EphemerisDownloader                                          *)
(* (src/gnss_lib_py/utils/ephemeris_downloader.py): the resolution of a    *)
(* timestamp and a satellite list to remote file descriptors, and the      *)
(* download / decompress / cache cycle that realizes each descriptor as a  *)
(* local file.                                                             *)
(*                                                                         *)
(* Strings are sequences of tokens.  The tokens "/" and "." are the path   *)
(* separator and the extension separator; no other token contains them,    *)
(* so os.path.split and os.path.splitext are computed on the tokens as     *)
(* the library computes them on characters.                                *)
(***************************************************************************)
EXTENDS Integers, Sequences, FiniteSets, TLC

(***************************************************************************)
(* Bounds of the model.                                                    *)
(***************************************************************************)
\* longest satellite list handed to get_ephemeris
MaxSatellites == 2
\* number of public calls (get_ephemeris / load_data) in one behaviour of Spec
MaxCalls == 2

(***************************************************************************)
(* Optional values (Python's None).                                        *)
(***************************************************************************)
None == [isNone |-> TRUE, val |-> {}]

Some(v) == [isNone |-> FALSE, val |-> v]

(***************************************************************************)
(* datetime: the proleptic Gregorian calendar of the standard library.     *)
(* An instant is [year, month, day, hour, minute, tz]; tz is "naive" or    *)
(* "utc".                                                                  *)
(***************************************************************************)
is_leap(y) == (y % 4 = 0) /\ ((y % 100 # 0) \/ (y % 400 = 0))

days_in_month(y, m) ==
    IF m = 2 THEN (IF is_leap(y) THEN 29 ELSE 28)
    ELSE IF m \in {4, 6, 9, 11} THEN 30 ELSE 31

RECURSIVE days_before_month(_, _)
days_before_month(y, m) ==
    IF m = 1 THEN 0
    ELSE days_before_month(y, m - 1) + days_in_month(y, m - 1)

days_before_year(y) ==
    (y - 1) * 365 + ((y - 1) \div 4) - ((y - 1) \div 100) + ((y - 1) \div 400)

toordinal(t) ==
    days_before_year(t.year) + days_before_month(t.year, t.month) + t.day

\* timetuple with a day of year that counts from 0
timetuple_zero_based(t) ==
    [tm_year |-> t.year,
     tm_yday |-> days_before_month(t.year, t.month) + t.day - 1]

\* datetime.timetuple(): the fields get_filepaths reads
timetuple(t) ==
    [tm_year |-> t.year,
     tm_yday |-> days_before_month(t.year, t.month) + t.day]

minute_of_day(t) == t.hour * 60 + t.minute

\* a - b as a timedelta; .days is the floor of the difference in whole days
timedelta_days(a, b) ==
    (((toordinal(a) - toordinal(b)) * 1440)
        + (minute_of_day(a) - minute_of_day(b))) \div 1440

\* a >= b for two aware datetimes in UTC
datetime_ge(a, b) ==
    \/ a.year > b.year
    \/ a.year = b.year /\ a.month > b.month
    \/ a.year = b.year /\ a.month = b.month /\ a.day > b.day
    \/ a.year = b.year /\ a.month = b.month /\ a.day = b.day
          /\ minute_of_day(a) >= minute_of_day(b)

datetime(y, mo, d, h, mi, tz) ==
    [year |-> y, month |-> mo, day |-> d, hour |-> h, minute |-> mi, tz |-> tz]

\* gnss_lib_py.utils.time_conversions.tzinfo_to_utc: a naive datetime is
\* interpreted as UTC
tzinfo_to_utc(t) == [t EXCEPT !.tz = "utc"]

(***************************************************************************)
(* str, zfill and slicing.                                                 *)
(***************************************************************************)
digit(d) == <<"0", "1", "2", "3", "4", "5", "6", "7", "8", "9">>[d + 1]

RECURSIVE str(_)
str(n) == IF n < 10 THEN <<digit(n)>> ELSE str(n \div 10) \o <<digit(n % 10)>>

RECURSIVE zfill(_, _)
zfill(s, width) == IF Len(s) >= width THEN s ELSE zfill(<<"0">> \o s, width)

\* s[-2:]
last2(s) == IF Len(s) <= 2 THEN s ELSE SubSeq(s, Len(s) - 1, Len(s))

(***************************************************************************)
(* os.path                                                                 *)
(***************************************************************************)
\* the largest index i <= n with s[i] = c, 0 when there is none
RECURSIVE rfind_from(_, _, _)
rfind_from(s, c, n) ==
    IF n = 0 THEN 0 ELSE IF s[n] = c THEN n ELSE rfind_from(s, c, n - 1)

\* index of the last token equal to c in s, 0 when there is none
rfind(s, c) == rfind_from(s, c, Len(s))

RECURSIVE rstrip_sep(_)
rstrip_sep(s) ==
    IF s # <<>> /\ s[Len(s)] = "/" THEN rstrip_sep(SubSeq(s, 1, Len(s) - 1)) ELSE s

\* os.path.split: <<head, tail>>; trailing separators are stripped from head
\* unless head consists of separators only
path_split(p) ==
    LET i    == rfind(p, "/")
        head == SubSeq(p, 1, i)
        tail == SubSeq(p, i + 1, Len(p))
    IN  <<IF rstrip_sep(head) = <<>> THEN head ELSE rstrip_sep(head), tail>>

\* os.path.splitext: <<root, ext>>; ext starts at the last "." of the last
\* component, and is empty when that component has none or only leads with it
path_splitext(p) ==
    LET sep == rfind(p, "/")
        dot == rfind(p, ".")
    IN  IF dot > sep + 1
        THEN <<SubSeq(p, 1, dot - 1), SubSeq(p, dot, Len(p))>>
        ELSE <<p, <<>>>>

\* os.path.join(a, b, c) for relative b and c
path_join(a, b, c) == a \o <<"/">> \o b \o <<"/">> \o c

(***************************************************************************)
(* EphemerisDownloader: the pure part.                                     *)
(***************************************************************************)
NASA == <<"gdc", ".", "cddis", ".", "eosdis", ".", "nasa", ".", "gov">>

BKG == <<"igs-ftp", ".", "bkg", ".", "bund", ".", "de">>

GZ == <<".", "gz">>

Z == <<".", "Z">>

\* get_filetype with > for >=: the boundary instant itself is given .Z
get_filetype_strict(timestamp) ==
    IF /\ datetime_ge(timestamp, datetime(2020, 12, 1, 0, 0, "utc"))
       /\ ~datetime_ge(datetime(2020, 12, 1, 0, 0, "utc"), timestamp)
    THEN GZ ELSE Z

\* get_filetype: IGS switched from .Z to .gz on December 1st, 2020
get_filetype(timestamp) ==
    IF datetime_ge(timestamp, datetime(2020, 12, 1, 0, 0, "utc")) THEN GZ ELSE Z

\* get_constellations testing the truth value of the list: [] gives None
get_constellations_falsy(satellites) ==
    IF ~satellites.isNone /\ satellites.val # <<>>
    THEN Some({satellites.val[i][1] : i \in 1..Len(satellites.val)})
    ELSE None

\* get_constellations: the set of first characters of a list of satellites,
\* None for anything that is not a list
get_constellations(satellites) ==
    IF ~satellites.isNone
    THEN Some({satellites.val[i][1] : i \in 1..Len(satellites.val)})
    ELSE None

\* get_filepaths: the dict, as its items in insertion order
get_filepaths(timestamp) ==
    LET tt        == timetuple(timestamp)
        extension == get_filetype(timestamp)
        year      == str(tt.tm_year)
        yday      == zfill(str(tt.tm_yday), 3)
        nasa_dir  == <<"gnss", "/", "data", "/", "daily", "/">> \o year
                        \o <<"/", "brdc", "/">>
        bkg_dir   == <<"/", "IGS", "/", "BRDC", "/">> \o year \o <<"/">> \o yday
                        \o <<"/">>
        mn_rnx_gz == <<"0000_01D_MN", ".", "rnx", ".", "gz">>
    IN  << [key |-> "nasa_daily_combined",
            filepath |-> nasa_dir \o <<"BRDC00IGS_R_">> \o year \o yday \o mn_rnx_gz,
            url |-> NASA],
           [key |-> "nasa_daily_gps",
            filepath |-> nasa_dir \o <<"brdc">> \o yday \o <<"0", ".">>
                            \o last2(year) \o <<"n">> \o extension,
            url |-> NASA],
           [key |-> "nasa_daily_glonass",
            filepath |-> nasa_dir \o <<"brdc">> \o yday \o <<"0", ".">>
                            \o last2(year) \o <<"g">> \o extension,
            url |-> NASA],
           [key |-> "bkg_daily_combined",
            filepath |-> bkg_dir \o <<"BRDC00WRD_S_">> \o year \o yday \o mn_rnx_gz,
            url |-> BKG] >>

\* filepaths[key]
item(filepaths, key) ==
    filepaths[CHOOSE i \in 1..Len(filepaths) : filepaths[i].key = key]

\* load_data iterating over the files of the primary archive only when
\* constellations is None
load_data_files_primary_only(timestamp, constellations, same_day) ==
    LET filepaths == get_filepaths(timestamp)
        legacy_systems == {"G", "R"}
        legacy_systems_only == Cardinality(constellations.val \ legacy_systems) = 0
    IN  IF constellations.isNone
        THEN SubSeq(filepaths, 1, 3)
        ELSE IF ~same_day
        THEN IF legacy_systems_only
             THEN (IF "G" \in constellations.val
                   THEN <<item(filepaths, "nasa_daily_gps")>> ELSE <<>>)
                  \o (IF "R" \in constellations.val
                      THEN <<item(filepaths, "nasa_daily_glonass")>> ELSE <<>>)
             ELSE <<item(filepaths, "nasa_daily_combined")>>
        ELSE IF legacy_systems_only /\ "G" \in constellations.val
             THEN <<item(filepaths, "nasa_daily_gps")>>
             ELSE <<item(filepaths, "bkg_daily_combined")>>

\* load_data taking the GPS file for every legacy request
load_data_files_always_gps(timestamp, constellations, same_day) ==
    LET filepaths == get_filepaths(timestamp)
        legacy_systems == {"G", "R"}
        legacy_systems_only == Cardinality(constellations.val \ legacy_systems) = 0
    IN  IF constellations.isNone
        THEN filepaths
        ELSE IF ~same_day
        THEN IF legacy_systems_only
             THEN <<item(filepaths, "nasa_daily_gps")>>
                  \o (IF "R" \in constellations.val
                      THEN <<item(filepaths, "nasa_daily_glonass")>> ELSE <<>>)
             ELSE <<item(filepaths, "nasa_daily_combined")>>
        ELSE IF legacy_systems_only /\ "G" \in constellations.val
             THEN <<item(filepaths, "nasa_daily_gps")>>
             ELSE <<item(filepaths, "bkg_daily_combined")>>

\* load_data taking the GPS file for every same-day request that names GPS
load_data_files_any_gps(timestamp, constellations, same_day) ==
    LET filepaths == get_filepaths(timestamp)
        legacy_systems == {"G", "R"}
        legacy_systems_only == Cardinality(constellations.val \ legacy_systems) = 0
    IN  IF constellations.isNone
        THEN filepaths
        ELSE IF ~same_day
        THEN IF legacy_systems_only
             THEN (IF "G" \in constellations.val
                   THEN <<item(filepaths, "nasa_daily_gps")>> ELSE <<>>)
                  \o (IF "R" \in constellations.val
                      THEN <<item(filepaths, "nasa_daily_glonass")>> ELSE <<>>)
             ELSE <<item(filepaths, "nasa_daily_combined")>>
        ELSE IF "G" \in constellations.val
             THEN <<item(filepaths, "nasa_daily_gps")>>
             ELSE <<item(filepaths, "bkg_daily_combined")>>

\* load_data: the fileinfo arguments of its get_rinex_path calls, in call order
load_data_files(timestamp, constellations, same_day) ==
    LET filepaths == get_filepaths(timestamp)
        legacy_systems == {"G", "R"}
        legacy_systems_only == Cardinality(constellations.val \ legacy_systems) = 0
    IN  IF constellations.isNone
        THEN filepaths
        ELSE IF ~same_day
        THEN IF legacy_systems_only
             THEN (IF "G" \in constellations.val
                   THEN <<item(filepaths, "nasa_daily_gps")>> ELSE <<>>)
                  \o (IF "R" \in constellations.val
                      THEN <<item(filepaths, "nasa_daily_glonass")>> ELSE <<>>)
             ELSE <<item(filepaths, "nasa_daily_combined")>>
        ELSE IF legacy_systems_only /\ "G" \in constellations.val
             THEN <<item(filepaths, "nasa_daily_gps")>>
             ELSE <<item(filepaths, "bkg_daily_combined")>>

\* get_ephemeris, up to its call of load_data: the arguments of that call
get_ephemeris_args(timestamp, satellites, current) ==
    LET systems == get_constellations(satellites)
        utc     == tzinfo_to_utc(timestamp)
    IN  [timestamp |-> utc,
         constellations |-> systems,
         same_day |-> timedelta_days(current, utc) <= 0]

(***************************************************************************)
(* EphemerisDownloader: the file system, the FTP servers and the cache.    *)
(***************************************************************************)
\* __init__: ephemeris_directory (DEFAULT_EPHEM_PATH relative to the cwd)
ephemeris_directory == <<"data", "/", "ephemeris">>

\* what one miss of get_rinex_path can meet, chosen by the servers and the
\* network: everything succeeds; FTP()/login() raises; RETR is answered with a
\* 5xx reply (ftplib.error_perm); RETR ends with any other exception (a 4xx
\* reply, a dropped connection); the transferred stream does not decompress
Outcomes == {"ok", "connect_error", "error_perm", "transfer_error", "decompress_error"}

NoError == [type |-> "none", src_filepath |-> <<>>, url |-> <<>>]

\* fs without the file at path p (os.remove)
remove(files, p) == [q \in (DOMAIN files) \ {p} |-> files[q]]

\* fs with the file at path p created or truncated and written (open(p, 'wb'))
write(files, p, content) == (p :> content) @@ files

\* connect without the switch to a protected data channel
connect_no_prot_p(url, secure) ==
    IF secure
    THEN [url |-> url, class |-> "FTP_TLS", login |-> "anonymous",
          prot_p |-> FALSE, open |-> TRUE]
    ELSE [url |-> url, class |-> "FTP", login |-> "anonymous",
          prot_p |-> FALSE, open |-> TRUE]

\* connect: FTP_TLS + login + prot_p when secure, FTP + login otherwise
connect(url, secure) ==
    IF secure
    THEN [url |-> url, class |-> "FTP_TLS", login |-> "anonymous",
          prot_p |-> TRUE, open |-> TRUE]
    ELSE [url |-> url, class |-> "FTP", login |-> "anonymous",
          prot_p |-> FALSE, open |-> TRUE]

\* ftp.quit() and ftp.close() on the connection opened last
quit(conns) == [conns EXCEPT ![Len(conns)].open = FALSE]

\* decompress_file removing the decompressed file instead of the compressed one
decompress_file_removes_output(files, filepath, decodes) ==
    LET extension         == path_splitext(filepath)[2]
        decompressed_path == path_splitext(filepath)[1]
    IN  IF extension = GZ \/ extension = Z
        THEN IF decodes
             THEN [fs |-> remove(write(files, decompressed_path, "rinex"), decompressed_path),
                   raised |-> NoError]
             ELSE [fs |-> write(files, decompressed_path, "truncated"),
                   raised |-> [type |-> "decompress_error",
                               src_filepath |-> <<>>, url |-> <<>>]]
        ELSE [fs |-> remove(files, filepath), raised |-> NoError]

\* decompress_file removing the compressed file in a finally clause
decompress_file_always_removes(files, filepath, decodes) ==
    LET extension         == path_splitext(filepath)[2]
        decompressed_path == path_splitext(filepath)[1]
    IN  IF extension = GZ \/ extension = Z
        THEN IF decodes
             THEN [fs |-> remove(write(files, decompressed_path, "rinex"), filepath),
                   raised |-> NoError]
             ELSE [fs |-> remove(write(files, decompressed_path, "truncated"), filepath),
                   raised |-> [type |-> "decompress_error",
                               src_filepath |-> <<>>, url |-> <<>>]]
        ELSE [fs |-> remove(files, filepath), raised |-> NoError]

\* decompress_file: the decompressed file is opened for writing before the
\* first byte is decoded, and os.remove is reached only when decoding raised
\* nothing
decompress_file(files, filepath, decodes) ==
    LET extension         == path_splitext(filepath)[2]
        decompressed_path == path_splitext(filepath)[1]
    IN  IF extension = GZ \/ extension = Z
        THEN IF decodes
             THEN [fs |-> remove(write(files, decompressed_path, "rinex"), filepath),
                   raised |-> NoError]
             ELSE [fs |-> write(files, decompressed_path, "truncated"),
                   raised |-> [type |-> "decompress_error",
                               src_filepath |-> <<>>, url |-> <<>>]]
        ELSE [fs |-> remove(files, filepath), raised |-> NoError]

\* retrieve_file without the os.remove of its except clause
retrieve_file_keeps_partial(files, conns, retrs, url, directory, filename, dest_filepath, outcome) ==
    LET secure       == (url = NASA)
        src_filepath == directory \o <<"/">> \o filename
        opened       == Append(conns, connect(url, secure))
    IN  IF outcome = "connect_error"
        THEN [fs |-> files, connections |-> conns, retr |-> retrs,
              raised |-> [type |-> "connect_error", src_filepath |-> <<>>,
                          url |-> <<>>]]
        ELSE IF outcome = "error_perm"
        THEN [fs |-> write(files, dest_filepath, "partial"),
              connections |-> opened, retr |-> retrs + 1,
              raised |-> [type |-> "error_perm", src_filepath |-> src_filepath,
                          url |-> url]]
        ELSE IF outcome = "transfer_error"
        THEN [fs |-> write(files, dest_filepath, "partial"),
              connections |-> opened, retr |-> retrs + 1,
              raised |-> [type |-> "transfer_error", src_filepath |-> <<>>,
                          url |-> <<>>]]
        ELSE LET d == decompress_file(write(files, dest_filepath, "compressed"),
                                      dest_filepath, outcome = "ok")
             IN  [fs |-> d.fs, connections |-> quit(opened), retr |-> retrs + 1,
                  raised |-> d.raised]

\* retrieve_file: connect, RETR into dest_filepath, quit, decompress
retrieve_file(files, conns, retrs, url, directory, filename, dest_filepath, outcome) ==
    LET secure       == (url = NASA)
        src_filepath == directory \o <<"/">> \o filename
        opened       == Append(conns, connect(url, secure))
    IN  IF outcome = "connect_error"
        THEN [fs |-> files, connections |-> conns, retr |-> retrs,
              raised |-> [type |-> "connect_error", src_filepath |-> <<>>,
                          url |-> <<>>]]
        ELSE IF outcome = "error_perm"
        THEN [fs |-> remove(write(files, dest_filepath, "partial"), dest_filepath),
              connections |-> opened, retr |-> retrs + 1,
              raised |-> [type |-> "error_perm", src_filepath |-> src_filepath,
                          url |-> url]]
        ELSE IF outcome = "transfer_error"
        THEN [fs |-> write(files, dest_filepath, "partial"),
              connections |-> opened, retr |-> retrs + 1,
              raised |-> [type |-> "transfer_error", src_filepath |-> <<>>,
                          url |-> <<>>]]
        ELSE LET d == decompress_file(write(files, dest_filepath, "compressed"),
                                      dest_filepath, outcome = "ok")
             IN  [fs |-> d.fs, connections |-> quit(opened), retr |-> retrs + 1,
                  raised |-> d.raised]

\* get_rinex_path: the local paths of a fileinfo
dest_filepath_of(fileinfo) ==
    LET filename == path_split(fileinfo.filepath)[2]
    IN  IF fileinfo.url = BKG
        THEN path_join(ephemeris_directory, <<"igs">>, filename)
        ELSE path_join(ephemeris_directory, <<"nasa">>, filename)

rinex_path_of(fileinfo) == path_splitext(dest_filepath_of(fileinfo))[1]

\* os.path.isfile(rinex_path)
isfile(files, p) == p \in DOMAIN files

\* get_rinex_path looking for the compressed file instead of rinex_path
get_rinex_path_checks_compressed(files, conns, retrs, fileinfo, outcome) ==
    LET filepath      == fileinfo.filepath
        url           == fileinfo.url
        directory     == path_split(filepath)[1]
        filename      == path_split(filepath)[2]
        dest_filepath == dest_filepath_of(fileinfo)
        rinex_path    == rinex_path_of(fileinfo)
    IN  IF ~isfile(files, dest_filepath)
        THEN [hit |-> FALSE, rinex_path |-> rinex_path]
             @@ retrieve_file(files, conns, retrs, url, directory, filename,
                              dest_filepath, outcome)
        ELSE [hit |-> TRUE, rinex_path |-> rinex_path, fs |-> files,
              connections |-> conns, retr |-> retrs, raised |-> NoError]

\* get_rinex_path: retrieve the file unless rinex_path exists
get_rinex_path(files, conns, retrs, fileinfo, outcome) ==
    LET filepath      == fileinfo.filepath
        url           == fileinfo.url
        directory     == path_split(filepath)[1]
        filename      == path_split(filepath)[2]
        dest_filepath == dest_filepath_of(fileinfo)
        rinex_path    == rinex_path_of(fileinfo)
    IN  IF ~isfile(files, rinex_path)
        THEN [hit |-> FALSE, rinex_path |-> rinex_path]
             @@ retrieve_file(files, conns, retrs, url, directory, filename,
                              dest_filepath, outcome)
        ELSE [hit |-> TRUE, rinex_path |-> rinex_path, fs |-> files,
              connections |-> conns, retr |-> retrs, raised |-> NoError]

(***************************************************************************)
(* Inputs.                                                                 *)
(***************************************************************************)
SatelliteIds == {<<"G", "0", "1">>, <<"R", "0", "5">>, <<"E", "1", "1">>,
                 <<"X", "9", "9">>}

\* satellites: None or a list of at most MaxSatellites satellite ids
SatelliteLists ==
    {None} \cup {Some(l) : l \in UNION {[1..k -> SatelliteIds] : k \in 0..MaxSatellites}}

\* constellations: None or a set of first characters
ConstellationSets == {None} \cup {Some(S) : S \in SUBSET {"G", "R", "E", "X"}}

TimesOfDay == {<<0, 0>>, <<5, 0>>, <<23, 59>>}

Dates ==
    {d \in [year : {2019, 2020, 2021}, month : 1..12, day : {1, 9, 10, 29, 30, 31}] :
        d.day <= days_in_month(d.year, d.month)}

\* the instants a caller passes: aware in UTC, or naive
Instants ==
    {datetime(d.year, d.month, d.day, t[1], t[2], tz) :
        d \in Dates, t \in TimesOfDay, tz \in {"utc", "naive"}}

AwareInstants == {t \in Instants : t.tz = "utc"}

\* the instants datetime.now(timezone.utc) is drawn from when only the
\* resolution is explored
ResolveClock ==
    {datetime(2020, 3, 1, 23, 59, "utc"), datetime(2020, 12, 1, 0, 0, "utc"),
     datetime(2020, 12, 1, 5, 0, "utc"), datetime(2021, 1, 1, 5, 0, "utc")}

\* the inputs of the calls whose downloads are explored: the last day of the
\* .Z era, asked for during the next day and the day after
CacheInstants ==
    {datetime(2020, 11, 30, 23, 59, "utc"), datetime(2020, 11, 30, 23, 59, "naive")}

CacheAwareInstants == {t \in CacheInstants : t.tz = "utc"}

CacheClock ==
    <<datetime(2020, 12, 1, 5, 0, "utc"), datetime(2020, 12, 2, 5, 0, "utc")>>

CacheSatelliteLists ==
    {l \in SatelliteLists :
        l.isNone \/ l.val \in {<<<<"G", "0", "1">>, <<"R", "0", "5">>>>}}

CacheConstellationSets == {Some({"E"})}

(***************************************************************************)
(* State.                                                                  *)
(***************************************************************************)
VARIABLES
    now,          \* datetime.now(timezone.utc)
    pc,           \* "idle", or "load_data" while a call is in its loop
    call,         \* the public call in progress, or the last one
    todo,         \* the fileinfo arguments load_data has not yet passed on
    rinex_paths,  \* load_data's local list
    result,       \* what the last public call gave its caller
    fs,           \* the files under ephemeris_directory: path -> content
    connections,  \* every FTP connection opened, in order, open or closed
    retr,         \* the number of RETR commands sent
    step,         \* the last get_rinex_path call: its argument and outcome
    realized,     \* fileinfo -> the path returned by the first call for it
                  \* that connected, downloaded and decompressed
    calls         \* the number of public calls made

vars == <<now, pc, call, todo, rinex_paths, result, fs, connections, retr, step,
          realized, calls>>

NoCall == [api |-> "none", timestamp |-> None, satellites |-> None,
           constellations |-> None, same_day |-> FALSE]

NoStep == [fileinfo |-> None, hit |-> FALSE, outcome |-> "none",
           rinex_path |-> <<>>, raised |-> NoError]

NoResult == [kind |-> "none", paths |-> <<>>, error |-> NoError]

InitOver(clock) ==
    /\ now \in clock
    /\ pc = "idle"
    /\ call = NoCall
    /\ todo = <<>>
    /\ rinex_paths = <<>>
    /\ result = NoResult
    /\ fs = <<>>
    /\ connections = <<>>
    /\ retr = 0
    /\ step = NoStep
    /\ realized = <<>>
    /\ calls = 0

\* the state a public call leaves behind when it enters load_data
enter_load_data(api, satellites, timestamp, constellations, same_day) ==
    /\ pc = "idle"
    /\ pc' = "load_data"
    /\ call' = [api |-> api, timestamp |-> timestamp, satellites |-> satellites,
                constellations |-> constellations, same_day |-> same_day]
    /\ todo' = load_data_files(timestamp, constellations, same_day)
    /\ rinex_paths' = <<>>
    /\ result' = NoResult
    /\ calls' = calls + 1
    /\ UNCHANGED <<now, fs, connections, retr, step, realized>>

\* get_ephemeris(timestamp, satellites)
GetEphemerisOver(instants, lists) ==
    \E t \in instants, satellites \in lists :
        LET args == get_ephemeris_args(t, satellites, now)
        IN  enter_load_data("get_ephemeris", satellites, args.timestamp,
                            args.constellations, args.same_day)

\* load_data(timestamp, constellations, same_day) called by a user, with an
\* aware UTC timestamp
LoadDataOver(instants, sets) ==
    \E t \in instants, constellations \in sets, same_day \in BOOLEAN :
        enter_load_data("load_data", None, t, constellations, same_day)

\* one iteration of load_data's loop: get_rinex_path on the next fileinfo, and
\* the append to rinex_paths, or the exception that ends load_data
GetRinexPath ==
    /\ pc = "load_data"
    /\ todo # <<>>
    /\ \E outcome \in Outcomes :
        LET fileinfo == Head(todo)
            r == get_rinex_path(fs, connections, retr, fileinfo, outcome)
        IN  /\ (r.hit => outcome = "ok")
            /\ fs' = r.fs
            /\ connections' = r.connections
            /\ retr' = r.retr
            /\ step' = [fileinfo |-> fileinfo, hit |-> r.hit,
                        outcome |-> outcome, rinex_path |-> r.rinex_path,
                        raised |-> r.raised]
            /\ realized' = IF ~r.hit /\ outcome = "ok" /\ fileinfo \notin DOMAIN realized
                           THEN (fileinfo :> r.rinex_path) @@ realized
                           ELSE realized
            /\ IF r.raised = NoError
               THEN /\ rinex_paths' = Append(rinex_paths, r.rinex_path)
                    /\ todo' = Tail(todo)
                    /\ UNCHANGED <<pc, result>>
               ELSE /\ pc' = "idle"
                    /\ result' = [kind |-> "raised", paths |-> <<>>, error |-> r.raised]
                    /\ UNCHANGED <<rinex_paths, todo>>
    /\ UNCHANGED <<now, call, calls>>

\* load_data returns rinex_paths, and get_ephemeris returns it in turn
Return ==
    /\ pc = "load_data"
    /\ todo = <<>>
    /\ pc' = "idle"
    /\ result' = [kind |-> "returned", paths |-> rinex_paths, error |-> NoError]
    /\ UNCHANGED <<now, call, todo, rinex_paths, fs, connections, retr, step,
                   realized, calls>>

\* time passes between two public calls
Tick ==
    /\ pc = "idle"
    /\ \E i \in 1..(Len(CacheClock) - 1) :
        /\ now = CacheClock[i]
        /\ now' = CacheClock[i + 1]
    /\ UNCHANGED <<pc, call, todo, rinex_paths, result, fs, connections, retr,
                   step, realized, calls>>

(***************************************************************************)
(* Spec: calls, downloads and the cache.                                   *)
(***************************************************************************)
Init == InitOver({CacheClock[1]})

GetEphemeris == calls < MaxCalls /\ GetEphemerisOver(CacheInstants, CacheSatelliteLists)

LoadData ==
    /\ calls < MaxCalls
    /\ LoadDataOver(CacheAwareInstants, CacheConstellationSets)

Next == GetEphemeris \/ LoadData \/ GetRinexPath \/ Return \/ Tick

Spec == Init /\ [][Next]_vars

(***************************************************************************)
(* SpecResolve: the resolution alone, over all the inputs.                 *)
(***************************************************************************)
InitResolve == InitOver(ResolveClock)

ResolveGetEphemeris == calls = 0 /\ GetEphemerisOver(Instants, SatelliteLists)

ResolveLoadData == calls = 0 /\ LoadDataOver(AwareInstants, ConstellationSets)

NextResolve == ResolveGetEphemeris \/ ResolveLoadData

SpecResolve == InitResolve /\ [][NextResolve]_vars

(***************************************************************************)
(* Properties of the resolution (SpecResolve).                             *)
(***************************************************************************)
\* load_data has been entered and has not yet called get_rinex_path: todo is
\* the whole list of descriptors the call resolves
Entered == pc = "load_data" /\ rinex_paths = <<>>

EndsWith(s, e) == Len(s) >= Len(e) /\ SubSeq(s, Len(s) - Len(e) + 1, Len(s)) = e

Primary(d) == d.url = NASA

Secondary(d) == d.url = BKG

IsCombined(d) == d.key = "nasa_daily_combined" /\ Primary(d)

IsGps(d) == d.key = "nasa_daily_gps" /\ Primary(d)

IsGlonass(d) == d.key = "nasa_daily_glonass" /\ Primary(d)

IsSecondaryCombined(d) == d.key = "bkg_daily_combined" /\ Secondary(d)

\* C1 (as stated): with constellations = None load_data resolves exactly 3
\* descriptors, combined, GPS-only and GLONASS-only, all from the primary
\* archive and none from the secondary archive
C1_Stated ==
    (Entered /\ call.constellations.isNone) =>
        /\ Len(todo) = 3
        /\ IsCombined(todo[1]) /\ IsGps(todo[2]) /\ IsGlonass(todo[3])
        /\ \A i \in 1..Len(todo) : ~Secondary(todo[i])

\* C1 (amended): with constellations = None load_data resolves exactly 4
\* descriptors, for every timestamp and either value of same_day: combined,
\* GPS-only and GLONASS-only from the primary archive, and then the combined
\* file of the secondary archive
C1_AllFour ==
    (Entered /\ call.constellations.isNone) =>
        /\ Len(todo) = 4
        /\ IsCombined(todo[1]) /\ IsGps(todo[2]) /\ IsGlonass(todo[3])
        /\ IsSecondaryCombined(todo[4])

C1_Witness ==
    /\ Entered /\ call.api = "load_data" /\ call.constellations.isNone
    /\ ~call.same_day /\ Len(todo) = 4

\* C2 (as stated): a same-day request with a constellation set resolves
\* exactly 1 descriptor, the GPS-only file at the primary archive iff the set
\* is exactly {"G"}, otherwise the combined file at the secondary archive
C2_Stated ==
    (Entered /\ ~call.constellations.isNone /\ call.same_day) =>
        /\ Len(todo) = 1
        /\ IsGps(todo[1]) <=> (call.constellations.val = {"G"})
        /\ (call.constellations.val # {"G"}) => IsSecondaryCombined(todo[1])

\* C2 (amended): a same-day request with a constellation set resolves exactly
\* 1 descriptor, the GPS-only file at the primary archive iff the set is {"G"}
\* or {"G", "R"}, otherwise the combined file at the secondary archive
C2_SameDay ==
    (Entered /\ ~call.constellations.isNone /\ call.same_day) =>
        /\ Len(todo) = 1
        /\ IsGps(todo[1]) <=> (call.constellations.val \in {{"G"}, {"G", "R"}})
        /\ (call.constellations.val \notin {{"G"}, {"G", "R"}})
              => IsSecondaryCombined(todo[1])

C2_Witness ==
    /\ Entered /\ call.same_day /\ call.constellations = Some({"G", "R"})
    /\ Len(todo) = 1 /\ IsGps(todo[1])

\* C3: a historical request with a constellation set S resolves, when S is a
\* subset of {G, R}, the GPS-only file iff G is in S and then the GLONASS-only
\* file iff R is in S (0, 1 or 2 descriptors), and otherwise exactly the
\* combined file of the primary archive
C3_Historical ==
    (Entered /\ ~call.constellations.isNone /\ ~call.same_day) =>
        LET S == call.constellations.val
        IN  IF S \subseteq {"G", "R"}
            THEN /\ Len(todo) = Cardinality(S)
                 /\ ("G" \in S) <=> (\E i \in 1..Len(todo) : IsGps(todo[i]))
                 /\ ("R" \in S) <=> (\E i \in 1..Len(todo) : IsGlonass(todo[i]))
                 /\ \A i \in 1..Len(todo) : IsGps(todo[i]) \/ IsGlonass(todo[i])
            ELSE Len(todo) = 1 /\ IsCombined(todo[1])

C3_Witness ==
    /\ Entered /\ ~call.same_day
    /\ call.constellations = Some({"G", "R"})
    /\ Len(todo) = 2 /\ IsGps(todo[1]) /\ IsGlonass(todo[2])

\* C4 (as stated): get_ephemeris with satellites = [] resolves the descriptors
\* that get_ephemeris with satellites = None resolves for the same timestamp
C4_Stated ==
    (Entered /\ call.api = "get_ephemeris" /\ call.satellites = Some(<<>>)) =>
        todo = load_data_files(call.timestamp, get_constellations(None),
                               call.same_day)

\* C4 (amended): only satellites = None is a request for all constellations
\* (4 descriptors); satellites = [] gives the empty constellation set, which
\* resolves no descriptor for a historical timestamp and only the combined
\* file of the secondary archive for a same-day one
C4_EmptyList ==
    (Entered /\ call.api = "get_ephemeris") =>
        /\ call.satellites.isNone =>
              call.constellations.isNone /\ Len(todo) = 4
        /\ call.satellites = Some(<<>>) =>
              /\ call.constellations = Some({})
              /\ ~call.same_day => todo = <<>>
              /\ call.same_day => Len(todo) = 1 /\ IsSecondaryCombined(todo[1])

C4_Witness ==
    /\ Entered /\ call.api = "get_ephemeris" /\ call.satellites = Some(<<>>)
    /\ ~call.same_day /\ todo = <<>>

\* the timestamp lies before 2020-12-01T00:00:00Z
BeforeGzEra(t) == t.year < 2020 \/ (t.year = 2020 /\ t.month < 12)

\* C5: the GPS-only and GLONASS-only filenames end in .Z for a timestamp
\* before 2020-12-01T00:00:00Z and in .gz from that instant on, the two
\* combined filenames end in .gz for every timestamp, whatever the current
\* date is
C5_Extension ==
    Entered =>
        \A i \in 1..Len(todo) :
            IF todo[i].key \in {"nasa_daily_gps", "nasa_daily_glonass"}
            THEN /\ BeforeGzEra(call.timestamp) => EndsWith(todo[i].filepath, Z)
                 /\ ~BeforeGzEra(call.timestamp) => EndsWith(todo[i].filepath, GZ)
            ELSE EndsWith(todo[i].filepath, GZ)

\* the boundary instant itself, asked for at a current date before it
C5_Witness ==
    /\ Entered /\ call.timestamp = datetime(2020, 12, 1, 0, 0, "utc")
    /\ now = datetime(2020, 3, 1, 23, 59, "utc")
    /\ Len(todo) = 4 /\ EndsWith(todo[2].filepath, GZ)

\* the UTC calendar day of a is the one of b or a later one
DateGe(a, b) ==
    \/ a.year > b.year
    \/ a.year = b.year /\ a.month > b.month
    \/ a.year = b.year /\ a.month = b.month /\ a.day >= b.day

\* C7: same_day as get_ephemeris computes it is true iff the UTC calendar day
\* of the timestamp is the current UTC calendar day or a later one
C7_Stated ==
    (Entered /\ call.api = "get_ephemeris") =>
        (call.same_day <=> DateGe(call.timestamp, now))

DigitChars == <<"0", "1", "2", "3", "4", "5", "6", "7", "8", "9">>

RECURSIVE Number(_)
Number(s) ==
    IF s = <<>> THEN 0
    ELSE 10 * Number(SubSeq(s, 1, Len(s) - 1))
            + ((CHOOSE i \in 1..10 : DigitChars[i] = s[Len(s)]) - 1)

IsNumber(s) == \A i \in 1..Len(s) : \E j \in 1..10 : DigitChars[j] = s[i]

CumulativeDays == <<0, 31, 59, 90, 120, 151, 181, 212, 243, 273, 304, 334>>

DayOfYear(t) ==
    CumulativeDays[t.month] + t.day
        + (IF t.month > 2 /\ (t.year % 4 = 0) /\ (t.year % 100 # 0 \/ t.year % 400 = 0)
           THEN 1 ELSE 0)

EmbeddedDate(d, t) ==
    LET fn == path_split(d.filepath)[2]
    IN  IF d.key \in {"nasa_daily_gps", "nasa_daily_glonass"}
        THEN /\ Len(fn) = 11
             /\ IsNumber(SubSeq(fn, 2, 4)) /\ Number(SubSeq(fn, 2, 4)) = DayOfYear(t)
             /\ IsNumber(SubSeq(fn, 7, 8)) /\ Number(SubSeq(fn, 7, 8)) = t.year % 100
        ELSE /\ Len(fn) = 13
             /\ IsNumber(SubSeq(fn, 2, 5)) /\ Number(SubSeq(fn, 2, 5)) = t.year
             /\ IsNumber(SubSeq(fn, 6, 8)) /\ Number(SubSeq(fn, 6, 8)) = DayOfYear(t)

\* C9: the descriptors resolved for a timestamp are those resolved for
\* midnight of its UTC calendar day, and the year, the zero-padded 3-digit
\* day of year and the 2-digit year in each filename are those of that day
C9_SameDayDescriptors ==
    Entered =>
        /\ todo = load_data_files([call.timestamp EXCEPT !.hour = 0, !.minute = 0],
                                  call.constellations, call.same_day)
        /\ \A i \in 1..Len(todo) : EmbeddedDate(todo[i], call.timestamp)

\* the last minute of day 366 of a leap year
C9_Witness ==
    /\ Entered /\ call.timestamp = datetime(2020, 12, 31, 23, 59, "utc")
    /\ Len(todo) = 4
    /\ path_split(todo[2].filepath)[2]
          = <<"brdc", "3", "6", "6", "0", ".", "2", "0", "n", ".", "gz">>

(***************************************************************************)
(* Properties of the downloads and the cache (Spec).                       *)
(***************************************************************************)
\* fs2 is fs1 without the file at path p, if there was one
SameExcept(fs1, fs2, p) ==
    /\ DOMAIN fs2 = (DOMAIN fs1) \ {p}
    /\ \A q \in DOMAIN fs2 : fs2[q] = fs1[q]

\* C6: once a get_rinex_path call for a descriptor has connected, downloaded
\* and decompressed, every later call for that descriptor opens no connection,
\* sends no RETR, leaves the files as they are and returns the path the first
\* call returned
C6_Idempotent ==
    [][(GetRinexPath /\ Head(todo) \in DOMAIN realized) =>
          /\ connections' = connections
          /\ retr' = retr
          /\ fs' = fs
          /\ step'.hit /\ step'.raised = NoError
          /\ step'.rinex_path = realized[Head(todo)]
          /\ rinex_paths' = Append(rinex_paths, realized[Head(todo)])]_vars

\* a second public call has asked for a descriptor the first one realized
C6_Witness ==
    /\ calls = 2 /\ step.hit /\ step.fileinfo \in DOMAIN realized
    /\ Len(connections) = 1 /\ retr = 1
    /\ rinex_paths = <<realized[step.fileinfo]>>

\* C8 (as stated): when the k-th descriptor of a batch fails, the files of the
\* descriptors already resolved remain in the cache and their paths are still
\* delivered to the caller
C8_Stated ==
    (result.kind = "raised" /\ rinex_paths # <<>>) =>
        /\ \A i \in 1..Len(rinex_paths) : isfile(fs, rinex_paths[i])
        /\ result.paths = rinex_paths

\* C8 (amended): when the k-th descriptor of a batch fails, the files of the
\* descriptors already resolved remain in the cache, but load_data raises the
\* failure and delivers no path at all
C8_CacheKeptNoPaths ==
    (result.kind = "raised") =>
        /\ \A i \in 1..Len(rinex_paths) : isfile(fs, rinex_paths[i])
        /\ result.paths = <<>>
        /\ result.error # NoError
        /\ pc = "idle"

\* the third of four descriptors failed after two were downloaded
C8_Witness ==
    /\ result.kind = "raised" /\ call.constellations.isNone
    /\ Len(rinex_paths) = 2 /\ Len(todo) = 2
    /\ ~step.hit /\ Len(connections) = 3

\* C10 (as stated): when RETR is answered with a permission / not-found error,
\* the partial local file is deleted, no decompressed file is created, the
\* failure raised names the remote path and the host, exactly one RETR was
\* sent, and the cache is what it was before the call
C10_Stated ==
    [][(GetRinexPath /\ step'.outcome = "error_perm") =>
          /\ ~isfile(fs', dest_filepath_of(step'.fileinfo))
          /\ ~isfile(fs', rinex_path_of(step'.fileinfo))
          /\ result'.kind = "raised" /\ result'.error.type = "error_perm"
          /\ result'.error.src_filepath = step'.fileinfo.filepath
          /\ result'.error.url = step'.fileinfo.url
          /\ retr' = retr + 1 /\ pc' = "idle"
          /\ fs' = fs]_vars

\* C10 (amended): as stated, except that the cache is what it was before the
\* call without any file at the local compressed path: a compressed file that
\* an earlier interrupted transfer left at that path is deleted as well
C10_PermissionError ==
    [][(GetRinexPath /\ step'.outcome = "error_perm") =>
          /\ ~isfile(fs', dest_filepath_of(step'.fileinfo))
          /\ ~isfile(fs', rinex_path_of(step'.fileinfo))
          /\ result'.kind = "raised" /\ result'.error.type = "error_perm"
          /\ result'.error.src_filepath = step'.fileinfo.filepath
          /\ result'.error.url = step'.fileinfo.url
          /\ retr' = retr + 1 /\ pc' = "idle"
          /\ SameExcept(fs, fs', dest_filepath_of(step'.fileinfo))]_vars

\* a permission error met by a call that found a file of an earlier call
\* in the cache
C10_Witness ==
    /\ step.outcome = "error_perm" /\ result.kind = "raised"
    /\ result.error.type = "error_perm"
    /\ result.error.src_filepath = step.fileinfo.filepath
    /\ ~isfile(fs, dest_filepath_of(step.fileinfo))
    /\ fs # <<>>

\* C11: every connection retrieve_file opened is closed when retrieve_file
\* has returned or raised, so that after any sequence of requests no
\* connection is left open
C11_Stated == \A i \in 1..Len(connections) : ~connections[i].open

StartsWith(s, prefix) == Len(s) >= Len(prefix) /\ SubSeq(s, 1, Len(prefix)) = prefix

\* the last get_rinex_path call missed the cache and opened a connection
Connected == step.outcome \notin {"none", "connect_error"} /\ ~step.hit

\* C12 (as stated): on a cache miss the connection is plain FTP with anonymous
\* login for the primary archive and FTP over explicit TLS (anonymous login,
\* protected data channel) for the secondary archive
C12_Stated ==
    \A i \in 1..Len(connections) :
        /\ connections[i].url = NASA =>
              connections[i].class = "FTP" /\ ~connections[i].prot_p
        /\ connections[i].url = BKG =>
              connections[i].class = "FTP_TLS" /\ connections[i].prot_p

\* C12 (amended): on a cache miss the connection goes to the descriptor's host
\* and its type is determined by that host alone: FTP over explicit TLS
\* (anonymous login, protected data channel) for the primary archive, cached
\* under nasa/, and plain FTP with anonymous login for the secondary archive,
\* cached under igs/
C12_ByHost ==
    /\ \A i \in 1..Len(connections) :
          /\ connections[i].url \in {NASA, BKG}
          /\ connections[i].login = "anonymous"
          /\ connections[i].url = NASA =>
                connections[i].class = "FTP_TLS" /\ connections[i].prot_p
          /\ connections[i].url = BKG =>
                connections[i].class = "FTP" /\ ~connections[i].prot_p
    /\ Connected => connections[Len(connections)].url = step.fileinfo.url
    /\ step.outcome # "none" =>
          /\ step.fileinfo.url = NASA =>
                StartsWith(step.rinex_path, ephemeris_directory \o <<"/", "nasa", "/">>)
          /\ step.fileinfo.url = BKG =>
                StartsWith(step.rinex_path, ephemeris_directory \o <<"/", "igs", "/">>)
    /\ \A q \in DOMAIN fs :
          \/ StartsWith(q, ephemeris_directory \o <<"/", "nasa", "/">>)
          \/ StartsWith(q, ephemeris_directory \o <<"/", "igs", "/">>)

\* both archives have been connected to, and a file of each is in the cache
C12_Witness ==
    /\ \E i \in 1..Len(connections) : connections[i].url = NASA
    /\ \E i \in 1..Len(connections) : connections[i].url = BKG
    /\ Connected /\ step.fileinfo.url = BKG
    /\ \E q \in DOMAIN fs : StartsWith(q, ephemeris_directory \o <<"/", "igs", "/">>)
    /\ \E q \in DOMAIN fs : StartsWith(q, ephemeris_directory \o <<"/", "nasa", "/">>)

\* C13: when the decoding of a downloaded file fails, the failure is raised
\* to the caller and the compressed file stays in the cache; after a
\* completed transfer the compressed file is gone iff the decoding succeeded
C13_DecompressionFailure ==
    [][GetRinexPath =>
          /\ step'.outcome = "decompress_error" =>
                /\ step'.raised.type = "decompress_error"
                /\ result'.kind = "raised"
                /\ result'.error.type = "decompress_error"
                /\ pc' = "idle"
                /\ isfile(fs', dest_filepath_of(step'.fileinfo))
                /\ fs'[dest_filepath_of(step'.fileinfo)] = "compressed"
          /\ (~step'.hit /\ step'.outcome = "ok") =>
                /\ ~isfile(fs', dest_filepath_of(step'.fileinfo))
                /\ step'.raised = NoError]_vars

\* a .Z file that did not decode
C13_Witness ==
    /\ step.outcome = "decompress_error" /\ result.kind = "raised"
    /\ EndsWith(step.fileinfo.filepath, Z)
    /\ isfile(fs, dest_filepath_of(step.fileinfo))

\* p is a local decompressed path: its name has lost its compression suffix
IsDecompressedPath(q) == path_splitext(q)[2] \notin {GZ, Z}

\* C14: a file exists at a local decompressed path only if an earlier
\* get_rinex_path call for that path completed the download and the
\* decompression; a failed transfer or a failed decompression leaves no file
\* there
C14_Stated ==
    \A q \in DOMAIN fs :
        IsDecompressedPath(q) => \E f \in DOMAIN realized : realized[f] = q

\* C15: whenever load_data returns, every returned path names a file that
\* exists in the cache, is the local compressed path without its final
\* suffix, has no compressed file left beside it, and the list is in
\* resolution order (GPS-only before GLONASS-only)
C15_Stated ==
    (result.kind = "returned") =>
        LET files == load_data_files(call.timestamp, call.constellations,
                                     call.same_day)
        IN  /\ Len(result.paths) = Len(files)
            /\ \A i \in 1..Len(files) :
                  /\ isfile(fs, result.paths[i])
                  /\ result.paths[i] = path_splitext(dest_filepath_of(files[i]))[1]
                  /\ path_splitext(dest_filepath_of(files[i]))[2] \in {GZ, Z}
                  /\ ~isfile(fs, dest_filepath_of(files[i]))
            /\ (call.constellations = Some({"G", "R"}) /\ ~call.same_day) =>
                  /\ Len(files) = 2
                  /\ IsGps(files[1]) /\ IsGlonass(files[2])

====
